---------------------------- MODULE Spec2Model ----------------------------
(***************************************************************************)
(* Model of src/analyze.py: one command-line run of main(), which calls    *)
(* analyze_stock(): download_stock_data -> compute_indicators -> latest    *)
(* row report -> get_fundamental_data -> fundamental classification ->     *)
(* aggregate signal -> optional CSV export -> exit code.                   *)
(*                                                                         *)
(* The external libraries (yfinance, pykrx, pandas_ta) are the inputs of   *)
(* the model: every call into them returns, or raises, a value drawn from  *)
(* a small set with \E.                                                    *)
(***************************************************************************)
EXTENDS Integers, Sequences, FiniteSets, TLC

VARIABLES
    pc,            \* position of the run inside main()/analyze_stock()
    raw,           \* what yf.download() answered
    fund_resp,     \* what the fundamentals provider answered
    fund_raised,   \* TRUE iff get_fundamental_data() raised into its caller
    fund_warning,  \* the fault the warning of get_fundamental_data() reports
    ind_ran,       \* the indicator calls compute_indicators() executed
    ticker,        \* the ticker analyze_stock() receives (args.ticker.upper())
    export_path,   \* TRUE iff --export was given
    data,          \* the frame download_stock_data() returned, or NoFrame
    error,         \* the error download_stock_data() ended with, or NoError
    enriched_data, \* the frame compute_indicators() returned, or NoFrame
    ind_failed,    \* the indicator call that raised in compute_indicators()
    fund_called,   \* TRUE once get_fundamental_data() has been called
    fundamentals,  \* the snapshot get_fundamental_data() returned
    per_class,     \* the PER line analyze_stock() printed
    pbr_class,     \* the PBR line analyze_stock() printed
    roe_class,     \* the ROE line analyze_stock() printed
    verdict,       \* the signal line analyze_stock() printed
    success,       \* the value analyze_stock() returned
    exported,      \* TRUE iff to_csv() wrote the file
    exit_code      \* the value main() returned

vars == <<pc, raw, fund_resp, fund_raised, fund_warning, ind_ran, ticker, export_path, data, error, enriched_data, ind_failed,
          fund_called, fundamentals, per_class, pbr_class, roe_class,
          verdict, success, exported, exit_code>>

(***************************************************************************)
(* Bounds                                                                  *)
(***************************************************************************)
\* largest number of rows the market-data provider returns
MaxRows == 1

(***************************************************************************)
(* Python values: None, float NaN, a number (a rational n/d, d > 0), or a  *)
(* non-empty string that is not a number (Yahoo reports "Infinity").       *)
(***************************************************************************)
None == [k |-> "none", n |-> 0, d |-> 1]
NaN == [k |-> "nan", n |-> 0, d |-> 1]
Str == [k |-> "str", n |-> 0, d |-> 1]

RECURSIVE Gcd(_, _)
Gcd(a, b) == IF b = 0 THEN a ELSE Gcd(b, a % b)

Abs(x) == IF x < 0 THEN -x ELSE x

\* the number n/d in lowest terms, d > 0
Rat(n, d) ==
    LET g == Gcd(Abs(n), Abs(d))
        s == IF d < 0 THEN -1 ELSE 1
    IN  [k |-> "num", n |-> (s * n) \div g, d |-> (s * d) \div g]

Num(n) == Rat(n, 1)

IsNum(v) == v.k = "num"

\* pd.notna(v)
notna(v) == v.k \notin {"none", "nan"}

\* bool(v): None and 0 are falsy; NaN, other numbers and non-empty strings truthy
Truthy(v) ==
    CASE v.k = "none" -> FALSE
      [] v.k = "num" -> v.n # 0
      [] OTHER -> TRUE

\* a > b and a < b on numbers; any comparison with NaN is False
Gt(a, b) == IsNum(a) /\ IsNum(b) /\ a.n * b.d > b.n * a.d
Lt(a, b) == IsNum(a) /\ IsNum(b) /\ a.n * b.d < b.n * a.d

\* a / b on numbers, b # 0
Div(a, b) == Rat(a.n * b.d, a.d * b.n)

\* mapping.get(key): the value, or None when the key is absent
Get(mapping, key) == IF key \in DOMAIN mapping THEN mapping[key] ELSE None

\* the empty dict {} / a frame without indicator columns
EmptyDict == <<>>

(***************************************************************************)
(* Column names (src/analyze.py:15-19)                                     *)
(***************************************************************************)
RSI_COLUMN == "RSI_14"
SMA20_COLUMN == "SMA_20"
SMA50_COLUMN == "SMA_50"
MACD_COLUMN == "MACD_12_26_9"
MACD_SIGNAL_COLUMN == "MACDs_12_26_9"

(***************************************************************************)
(* download_stock_data                                                     *)
(***************************************************************************)
NoFrame == [rows |-> 0, cols |-> <<>>, multi |-> FALSE, none |-> TRUE]
NoError == [kind |-> "none", available |-> <<>>]

\* a frame of `rows` rows whose columns are `cols`, a sequence of
\* [name: column label, src: provider field the values come from]
Frame(rows, cols, multi) ==
    [rows |-> rows, cols |-> cols, multi |-> multi, none |-> FALSE]

\* str.lower() on the column labels yfinance uses
Lower(name) ==
    CASE name = "Adj Close" -> "adj close"
      [] name = "Close" -> "close"
      [] name = "Open" -> "open"
      [] name = "Volume" -> "volume"
      [] OTHER -> name

Names(cols) == {cols[i].name : i \in 1..Len(cols)}
NameSeq(cols) == [i \in 1..Len(cols) |-> cols[i].name]

\* DataFrame.empty that looks at the columns only
empty_columns(frame) == Len(frame.cols) = 0

\* DataFrame.empty: some axis has length 0
empty(frame) == frame.rows = 0 \/ Len(frame.cols) = 0

\* data.columns = data.columns.droplevel(1); data.columns.str.lower()
LowerColumns(cols) ==
    [i \in 1..Len(cols) |-> [name |-> Lower(cols[i].name), src |-> cols[i].src]]

\* DropClose that forgets to drop the raw close
DropClose_kept(cols) == cols

\* data.drop(columns=['close'])
DropClose(cols) == SelectSeq(cols, LAMBDA c : c.name # "close")

\* data.rename(columns={'adj close': 'close'})
RenameAdjClose(cols) ==
    [i \in 1..Len(cols) |->
        IF cols[i].name = "adj close"
        THEN [name |-> "close", src |-> cols[i].src]
        ELSE cols[i]]

\* download_stock_data that resolves the fields before it looks at the rows
download_stock_data_fieldsfirst(resp) ==
    IF resp.o = "raise"
    THEN [ok |-> FALSE, data |-> NoFrame,
          error |-> [kind |-> "ProviderFault", available |-> <<>>]]
    ELSE IF resp.o = "none"
    THEN [ok |-> FALSE, data |-> NoFrame,
          error |-> [kind |-> "AttributeError", available |-> <<>>]]
    ELSE LET cols == LowerColumns(resp.frame.cols)
         IN  IF "adj close" \notin Names(cols) /\ "close" \notin Names(cols)
             THEN [ok |-> FALSE, data |-> NoFrame,
                   error |-> [kind |-> "MissingPriceField",
                              available |-> NameSeq(cols)]]
             ELSE IF empty(resp.frame)
             THEN [ok |-> FALSE, data |-> NoFrame,
                   error |-> [kind |-> "EmptySeries", available |-> <<>>]]
             ELSE [ok |-> TRUE,
                   data |-> Frame(resp.frame.rows,
                                  IF "adj close" \in Names(cols)
                                  THEN RenameAdjClose(DropClose(cols))
                                  ELSE cols,
                                  FALSE),
                   error |-> NoError]

\* the outcome of download_stock_data(ticker, period, interval) when
\* yf.download() answers `resp`: [o: "raise"] (the call raises),
\* [o: "none"] (no frame at all) or [o: "frame", frame: ...]
download_stock_data(resp) ==
    IF resp.o = "raise"
    THEN [ok |-> FALSE, data |-> NoFrame,
          error |-> [kind |-> "ProviderFault", available |-> <<>>]]
    ELSE IF resp.o = "none"
    THEN \* None.empty raises AttributeError
         [ok |-> FALSE, data |-> NoFrame,
          error |-> [kind |-> "AttributeError", available |-> <<>>]]
    ELSE IF empty(resp.frame)
    THEN [ok |-> FALSE, data |-> NoFrame,
          error |-> [kind |-> "EmptySeries", available |-> <<>>]]
    ELSE LET cols == LowerColumns(resp.frame.cols)
         IN  IF "adj close" \in Names(cols)
             THEN [ok |-> TRUE,
                   data |-> Frame(resp.frame.rows,
                                  RenameAdjClose(IF "close" \in Names(cols)
                                                 THEN DropClose(cols)
                                                 ELSE cols),
                                  FALSE),
                   error |-> NoError]
             ELSE IF "close" \notin Names(cols)
             THEN [ok |-> FALSE, data |-> NoFrame,
                   error |-> [kind |-> "MissingPriceField",
                              available |-> NameSeq(cols)]]
             ELSE [ok |-> TRUE,
                   data |-> Frame(resp.frame.rows, cols, FALSE),
                   error |-> NoError]

(***************************************************************************)
(* get_fundamental_data                                                    *)
(***************************************************************************)
\* str.upper() on the parts of a ticker [code, suffix]
Upper(s) ==
    CASE s = "aapl" -> "AAPL"
      [] s = ".ks" -> ".KS"
      [] s = ".kq" -> ".KQ"
      [] OTHER -> s

upper(t) == [code |-> Upper(t.code), suffix |-> Upper(t.suffix)]

\* ticker_str.endswith((".KS", ".KQ"))
IsRegional(ticker_str) == ticker_str.suffix \in {".KS", ".KQ"}

\* ticker_str.split('.')[0]
kr_ticker(ticker_str) == ticker_str.code

\* RegionalRoe as a percentage, as the comment of line 76 has it
RegionalRoe_percent(eps, bps) ==
    IF notna(eps) /\ notna(bps) /\ bps.n # 0
    THEN Rat(100 * eps.n * bps.d, eps.d * bps.n)
    ELSE None

\* lines 80-85: ROE of the regional shape
RegionalRoe(eps, bps) ==
    IF notna(eps) /\ notna(bps) /\ bps.n # 0
    THEN Div(eps, bps)
    ELSE None

\* the try block of get_fundamental_data (lines 58-97) when the provider
\* answers `resp`; raised = TRUE when a statement of the block raises
\*   regional       [o: "raise"] or [o: "table", table: code -> row]
\*   international  [o: "raise"], [o: "none"] (info is None) or
\*                  [o: "info", info: key -> value]
FundamentalLookup(ticker_str, resp) ==
    IF IsRegional(ticker_str)
    THEN IF resp.o = "raise"
         THEN [raised |-> TRUE, fault |-> "ProviderError", value |-> EmptyDict]
         ELSE IF kr_ticker(ticker_str) \notin DOMAIN resp.table
         THEN \* df_funda.loc[kr_ticker] raises KeyError
              [raised |-> TRUE, fault |-> "KeyError", value |-> EmptyDict]
         ELSE LET info == resp.table[kr_ticker(ticker_str)]
              IN  [raised |-> FALSE, fault |-> "none",
                   value |-> [per |-> Get(info, "PER"),
                              pbr |-> Get(info, "PBR"),
                              roe |-> RegionalRoe(Get(info, "EPS"),
                                                  Get(info, "BPS"))]]
    ELSE IF resp.o = "raise"
         THEN [raised |-> TRUE, fault |-> "ProviderError", value |-> EmptyDict]
         ELSE IF resp.o = "none"
         THEN \* None.get raises AttributeError
              [raised |-> TRUE, fault |-> "AttributeError", value |-> EmptyDict]
         ELSE [raised |-> FALSE, fault |-> "none",
               value |-> [per |-> Get(resp.info, "trailingPE"),
                          pbr |-> Get(resp.info, "priceToBook"),
                          roe |-> Get(resp.info, "returnOnEquity")]]

\* get_fundamental_data without its except clause
get_fundamental_data_uncaught(ticker_str, resp) ==
    LET r == FundamentalLookup(ticker_str, resp)
    IN  [raised |-> r.raised, warning |-> "none", value |-> r.value]

\* get_fundamental_data(ticker_str, latest_trading_day): `except Exception`
\* (lines 99-101) prints the fault as a warning and returns the empty dict;
\* `warning` is the fault printed
get_fundamental_data(ticker_str, resp) ==
    LET r == FundamentalLookup(ticker_str, resp)
    IN  IF r.raised
        THEN [raised |-> FALSE, warning |-> r.fault, value |-> EmptyDict]
        ELSE [raised |-> FALSE, warning |-> "none", value |-> r.value]

(***************************************************************************)
(* compute_indicators                                                      *)
(***************************************************************************)
\* the four pandas_ta calls, in the order of lines 108-111
IndicatorCalls == <<"rsi", "macd", "sma20", "sma50">>

\* index of the first call that raises, 5 when none does
FirstRaise(calls) ==
    IF \E i \in 1..4 : calls[i].o = "raise"
    THEN CHOOSE i \in 1..4 :
            /\ calls[i].o = "raise"
            /\ \A j \in 1..(i - 1) : calls[j].o # "raise"
    ELSE 5

\* the columns call i appends to the frame (their values in the last row):
\* calls[i] is [o: "raise"], [o: "skip"] (pandas_ta returns None for a series
\* shorter than the window and appends nothing) or [o: "ok", v: latest values]
Appended(calls, i) ==
    IF calls[i].o # "ok" THEN EmptyDict
    ELSE CASE i = 1 -> (RSI_COLUMN :> calls[i].v[1])
           [] i = 2 -> (MACD_COLUMN :> calls[i].v[1]) @@
                       (MACD_SIGNAL_COLUMN :> calls[i].v[2])
           [] i = 3 -> (SMA20_COLUMN :> calls[i].v[1])
           [] i = 4 -> (SMA50_COLUMN :> calls[i].v[1])

RECURSIVE AppendUpTo(_, _)
AppendUpTo(calls, n) ==
    IF n = 0 THEN EmptyDict
    ELSE AppendUpTo(calls, n - 1) @@ Appended(calls, n)

\* compute_indicators(data): the calls run in order inside one try block, so
\* the first call that raises ends the block and the frame built so far is
\* returned
compute_indicators(frame, calls) ==
    [frame |-> frame,
     latest |-> AppendUpTo(calls, FirstRaise(calls) - 1),
     ran |-> {IndicatorCalls[i] : i \in {j \in 1..4 : j <= FirstRaise(calls)}},
     failed |-> IF FirstRaise(calls) = 5 THEN "none"
                ELSE IndicatorCalls[FirstRaise(calls)]]

(***************************************************************************)
(* analyze_stock: the report on the latest row                             *)
(***************************************************************************)
\* lines 232-244: the PER line; "raise" when format_float(per) raises
\* because per is not a number
PerClass(per) ==
    IF Truthy(per) /\ notna(per)
    THEN IF ~IsNum(per) THEN "raise"
         ELSE IF Gt(per, Num(0)) /\ Lt(per, Num(15)) THEN "undervalued"
         ELSE IF Gt(per, Num(0)) /\ Lt(per, Num(30)) THEN "fair"
         ELSE IF Gt(per, Num(0)) THEN "overvalued"
         ELSE "loss-making"
    ELSE "N/A"

\* lines 247-257: the PBR line
PbrClass(pbr) ==
    IF Truthy(pbr) /\ notna(pbr)
    THEN IF ~IsNum(pbr) THEN "raise"
         ELSE IF Lt(pbr, Num(1)) THEN "undervalued"
         ELSE IF Lt(pbr, Num(2)) THEN "fair"
         ELSE "overvalued"
    ELSE "N/A"

\* lines 260-270: the ROE line
RoeClass(roe) ==
    IF Truthy(roe) /\ notna(roe)
    THEN IF ~IsNum(roe) THEN "raise"
         ELSE IF Gt(roe, Rat(15, 100)) THEN "excellent"
         ELSE IF Gt(roe, Rat(5, 100)) THEN "adequate"
         ELSE "weak"
    ELSE "N/A"

\* lines 228-270: the three lines printed for the snapshot, up to the first
\* one that raises
Classify(snapshot) ==
    IF DOMAIN snapshot = {}
    THEN [raised |-> FALSE, per |-> "failed", pbr |-> "failed", roe |-> "failed"]
    ELSE LET per == PerClass(Get(snapshot, "per"))
             pbr == PbrClass(Get(snapshot, "pbr"))
             roe == RoeClass(Get(snapshot, "roe"))
         IN  IF per = "raise"
             THEN [raised |-> TRUE, per |-> "none", pbr |-> "none", roe |-> "none"]
             ELSE IF pbr = "raise"
             THEN [raised |-> TRUE, per |-> per, pbr |-> "none", roe |-> "none"]
             ELSE IF roe = "raise"
             THEN [raised |-> TRUE, per |-> per, pbr |-> pbr, roe |-> "none"]
             ELSE [raised |-> FALSE, per |-> per, pbr |-> pbr, roe |-> roe]

\* all_metrics_valid that forgets sma_50
all_metrics_valid_nosma50(latest) ==
    /\ notna(Get(latest, SMA20_COLUMN))
    /\ notna(Get(latest, MACD_COLUMN))
    /\ notna(Get(latest, MACD_SIGNAL_COLUMN))
    /\ notna(Get(latest, RSI_COLUMN))

\* lines 276-279
all_metrics_valid(latest) ==
    /\ notna(Get(latest, SMA20_COLUMN))
    /\ notna(Get(latest, SMA50_COLUMN))
    /\ notna(Get(latest, MACD_COLUMN))
    /\ notna(Get(latest, MACD_SIGNAL_COLUMN))
    /\ notna(Get(latest, RSI_COLUMN))

\* Signal in which a tie of the averages counts as bullish
Signal_tie(latest) ==
    IF all_metrics_valid(latest)
    THEN LET is_sma_bullish ==
                 ~Lt(Get(latest, SMA20_COLUMN), Get(latest, SMA50_COLUMN))
             is_macd_bullish ==
                 Gt(Get(latest, MACD_COLUMN), Get(latest, MACD_SIGNAL_COLUMN))
             is_not_overbought == Lt(Get(latest, RSI_COLUMN), Num(70))
             is_not_oversold == Gt(Get(latest, RSI_COLUMN), Num(30))
         IN  IF is_sma_bullish /\ is_macd_bullish /\ is_not_overbought
             THEN "Bullish"
             ELSE IF ~is_sma_bullish /\ ~is_macd_bullish /\ is_not_oversold
             THEN "Bearish"
             ELSE "Neutral"
    ELSE "Indeterminate"

\* lines 281-300: the signal line
Signal(latest) ==
    IF all_metrics_valid(latest)
    THEN LET is_sma_bullish ==
                 Gt(Get(latest, SMA20_COLUMN), Get(latest, SMA50_COLUMN))
             is_macd_bullish ==
                 Gt(Get(latest, MACD_COLUMN), Get(latest, MACD_SIGNAL_COLUMN))
             is_not_overbought == Lt(Get(latest, RSI_COLUMN), Num(70))
             is_not_oversold == Gt(Get(latest, RSI_COLUMN), Num(30))
         IN  IF is_sma_bullish /\ is_macd_bullish /\ is_not_overbought
             THEN "Bullish"
             ELSE IF ~is_sma_bullish /\ ~is_macd_bullish /\ is_not_oversold
             THEN "Bearish"
             ELSE "Neutral"
    ELSE "Indeterminate"

(***************************************************************************)
(* Inputs of a run                                                         *)
(***************************************************************************)
\* tickers typed on the command line, as [code, suffix]
RawTickers ==
    {[code |-> "aapl", suffix |-> ""],
     [code |-> "005930", suffix |-> ".ks"],
     [code |-> "035720", suffix |-> ".KQ"]}

\* the fields of a yfinance frame, in its column order
ProviderFields == <<"Adj Close", "Close", "Volume">>

\* the columns of a provider frame that has the fields S
ColumnsOf(S) ==
    LET kept == SelectSeq(ProviderFields, LAMBDA f : f \in S)
    IN  [i \in 1..Len(kept) |-> [name |-> kept[i], src |-> kept[i]]]

\* what yf.download() may answer: it raises, returns nothing, or returns a
\* frame of 0..MaxRows rows with one of the field sets
DownloadResponsesOf(fieldsets) ==
    {[o |-> "raise", frame |-> NoFrame], [o |-> "none", frame |-> NoFrame]}
    \cup {[o |-> "frame", frame |-> Frame(rows, ColumnsOf(S), multi)] :
            rows \in 0..MaxRows, S \in fieldsets, multi \in BOOLEAN}

AllDownloadResponses == DownloadResponsesOf(SUBSET {"Adj Close", "Close", "Volume"})

FewDownloadResponses ==
    DownloadResponsesOf({{"Volume"}, {"Close", "Volume"},
                         {"Adj Close", "Close", "Volume"}})

\* what one pandas_ta call may do; v holds the latest-row values it appends
Raise == [o |-> "raise", v |-> <<>>]
Skip == [o |-> "skip", v |-> <<>>]
Ok(v) == [o |-> "ok", v |-> v]

\* the outcomes of the four calls, <<rsi, macd, sma20, sma50>>
AllIndicatorOutcomes ==
    ({Raise, Skip} \cup {Ok(<<x>>) : x \in {NaN, Num(30), Num(50), Num(70)}})
    \X ({Raise, Skip} \cup {Ok(<<x, y>>) : x \in {NaN, Num(0), Num(1)},
                                           y \in {NaN, Num(0)}})
    \X ({Raise, Skip} \cup {Ok(<<x>>) : x \in {NaN, Num(100), Num(110)}})
    \X ({Raise, Skip} \cup {Ok(<<x>>) : x \in {NaN, Num(100)}})

FewIndicatorOutcomes ==
    {Raise, Ok(<<Num(50)>>)}
    \X {Ok(<<Num(1), Num(0)>>), Ok(<<Num(0), Num(0)>>)}
    \X {Ok(<<Num(110)>>)}
    \X {Skip, Ok(<<Num(100)>>)}

\* a mapping with the keys whose value is not Absent
Absent == [k |-> "absent", n |-> 0, d |-> 1]
Present(m) == [key \in {x \in DOMAIN m : m[x] # Absent} |-> m[key]]

\* rows of the pykrx table
RegionalRowsOf(pers, epss, bpss) ==
    {Present([PER |-> per, PBR |-> Num(1), EPS |-> eps, BPS |-> bps]) :
        per \in pers, eps \in epss, bps \in bpss}

\* the Yahoo info dict
InternationalInfosOf(pers) ==
    {Present([trailingPE |-> per, priceToBook |-> rest[1],
              returnOnEquity |-> rest[2]]) :
        per \in pers,
        rest \in {<<Absent, Absent>>, <<Num(1), Rat(1, 10)>>}}

\* what the fundamentals provider of the ticker's shape may answer
FundamentalResponsesOf(ticker_str, rows, infos) ==
    IF IsRegional(ticker_str)
    THEN {[o |-> "raise", table |-> EmptyDict],
          [o |-> "table", table |-> ("000000" :> EmptyDict)]}
         \cup {[o |-> "table", table |-> (kr_ticker(ticker_str) :> row)] :
                 row \in rows}
    ELSE {[o |-> "raise", info |-> EmptyDict], [o |-> "none", info |-> EmptyDict]}
         \cup {[o |-> "info", info |-> info] : info \in infos}

AllFundamentalResponses(ticker_str) ==
    FundamentalResponsesOf(ticker_str,
        RegionalRowsOf({Absent, NaN, Num(-5), Num(0), Num(10), Num(15), Num(30)},
                       {Absent, NaN, Num(-500), Num(0), Num(1000)},
                       {Absent, NaN, Num(0), Num(10000)}),
        InternationalInfosOf({Absent, None, NaN, Str, Num(-5), Num(0), Num(10),
                              Num(15), Num(30)}))

FewFundamentalResponses(ticker_str) ==
    FundamentalResponsesOf(ticker_str,
        RegionalRowsOf({Num(10)}, {Num(1000)}, {Num(0), Num(10000)}),
        InternationalInfosOf({Absent, Str, Num(10)}))

(***************************************************************************)
(* The run                                                                 *)
(***************************************************************************)
Init ==
    /\ pc = "main"
    /\ raw = [o |-> "pending", frame |-> NoFrame]
    /\ fund_resp = [o |-> "pending"]
    /\ fund_raised = FALSE
    /\ fund_warning = "none"
    /\ ind_ran = {}
    /\ ticker = [code |-> "", suffix |-> ""]
    /\ export_path = FALSE
    /\ data = NoFrame
    /\ error = NoError
    /\ enriched_data = [frame |-> NoFrame, latest |-> EmptyDict]
    /\ ind_failed = "none"
    /\ fund_called = FALSE
    /\ fundamentals = EmptyDict
    /\ per_class = "none"
    /\ pbr_class = "none"
    /\ roe_class = "none"
    /\ verdict = "none"
    /\ success = "none"
    /\ exported = FALSE
    /\ exit_code = -1

\* main, lines 345-350: parse the arguments and call analyze_stock
Main ==
    /\ pc = "main"
    /\ \E t \in RawTickers, e \in BOOLEAN :
        /\ ticker' = upper(t)
        /\ export_path' = e
    /\ pc' = "download"
    /\ UNCHANGED <<raw, fund_resp, fund_raised, fund_warning, ind_ran, data, error, enriched_data, ind_failed, fund_called,
                   fundamentals, per_class, pbr_class, roe_class, verdict,
                   success, exported, exit_code>>

\* analyze_stock, lines 135-142
DownloadFrom(responses) ==
    /\ pc = "download"
    /\ \E resp \in responses :
        LET r == download_stock_data(resp)
        IN  /\ raw' = resp
            /\ IF r.ok
               THEN /\ data' = r.data
                    /\ pc' = "compute"
                    /\ UNCHANGED <<error, success>>
               ELSE /\ error' = r.error
                    /\ success' = "False"
                    /\ pc' = "returned"
                    /\ UNCHANGED data
    /\ UNCHANGED <<fund_resp, fund_raised, fund_warning, ind_ran, ticker, export_path, enriched_data, ind_failed, fund_called,
                   fundamentals, per_class, pbr_class, roe_class, verdict,
                   exported, exit_code>>

\* analyze_stock, lines 144-148
ComputeFrom(outcomes) ==
    /\ pc = "compute"
    /\ \E calls \in outcomes :
        LET r == compute_indicators(data, calls)
        IN  /\ enriched_data' = [frame |-> r.frame, latest |-> r.latest]
            /\ ind_failed' = r.failed
            /\ ind_ran' = r.ran
    /\ pc' = "analyze"
    /\ UNCHANGED <<raw, fund_resp, fund_raised, fund_warning, ticker, export_path, data, error, fund_called, fundamentals,
                   per_class, pbr_class, roe_class, verdict, success, exported,
                   exit_code>>

\* analyze_stock, lines 150-304: the report on the latest row
AnalyzeFrom(responses) ==
    /\ pc = "analyze"
    /\ fund_called' = TRUE
    /\ \E resp \in responses :
        LET f == get_fundamental_data(ticker, resp)
            c == Classify(f.value)
        IN  /\ fund_resp' = resp
            /\ fund_raised' = f.raised
            /\ fund_warning' = f.warning
            /\ IF f.raised
               THEN /\ success' = "False"
                    /\ pc' = "returned"
                    /\ UNCHANGED <<fundamentals, per_class, pbr_class,
                                   roe_class, verdict>>
               ELSE /\ fundamentals' = f.value
                    /\ per_class' = c.per
                    /\ pbr_class' = c.pbr
                    /\ roe_class' = c.roe
                    /\ IF c.raised
                       THEN /\ success' = "False"
                            /\ pc' = "returned"
                            /\ UNCHANGED verdict
                       ELSE /\ verdict' = Signal(enriched_data.latest)
                            /\ pc' = "export"
                            /\ UNCHANGED success
    /\ UNCHANGED <<raw, ind_ran, ticker, export_path, data, error,
                   enriched_data, ind_failed, exported, exit_code>>

\* analyze_stock, lines 306-313
Export ==
    /\ pc = "export"
    /\ IF export_path
       THEN \E written \in BOOLEAN : exported' = written
       ELSE UNCHANGED exported
    /\ success' = "True"
    /\ pc' = "returned"
    /\ UNCHANGED <<raw, fund_resp, fund_raised, fund_warning, ind_ran, ticker, export_path, data, error, enriched_data, ind_failed,
                   fund_called, fundamentals, per_class, pbr_class, roe_class,
                   verdict, exit_code>>

\* main, line 351
Exit ==
    /\ pc = "returned"
    /\ exit_code' = IF success = "True" THEN 0 ELSE 1
    /\ pc' = "exit"
    /\ UNCHANGED <<raw, fund_resp, fund_raised, fund_warning, ind_ran, ticker, export_path, data, error, enriched_data, ind_failed,
                   fund_called, fundamentals, per_class, pbr_class, roe_class,
                   verdict, success, exported>>

\* a run on few series and fundamentals and every outcome of the indicators
Download == DownloadFrom(FewDownloadResponses)
Compute == ComputeFrom(AllIndicatorOutcomes)
Analyze == AnalyzeFrom(FewFundamentalResponses(ticker))

Next == Main \/ Download \/ Compute \/ Analyze \/ Export \/ Exit

Spec == Init /\ [][Next]_vars

\* a run on every series and few outcomes of the indicators and fundamentals
DownloadAll == DownloadFrom(AllDownloadResponses)
ComputeFew == ComputeFrom(FewIndicatorOutcomes)

NextSeries == Main \/ DownloadAll \/ ComputeFew \/ Analyze \/ Export \/ Exit

SpecSeries == Init /\ [][NextSeries]_vars

\* a run on every answer of the fundamentals providers and few series and
\* outcomes of the indicators
AnalyzeAll == AnalyzeFrom(AllFundamentalResponses(ticker))

NextFundamentals == Main \/ Download \/ ComputeFew \/ AnalyzeAll \/ Export \/ Exit

SpecFundamentals == Init /\ [][NextFundamentals]_vars

\* the run under the scheduling of a sequential program: a step that can be
\* taken is taken
FairSeries == SpecSeries /\ WF_vars(NextSeries)

(***************************************************************************)
(* Properties                                                              *)
(***************************************************************************)
\* the five values of the latest row the signal reads
rsi14 == Get(enriched_data.latest, RSI_COLUMN)
sma20 == Get(enriched_data.latest, SMA20_COLUMN)
sma50 == Get(enriched_data.latest, SMA50_COLUMN)
macdLine == Get(enriched_data.latest, MACD_COLUMN)
macdSignal == Get(enriched_data.latest, MACD_SIGNAL_COLUMN)

Defined(v) == v.k = "num"
AllDefined ==
    Defined(rsi14) /\ Defined(sma20) /\ Defined(sma50) /\ Defined(macdLine)
    /\ Defined(macdSignal)

\* the field names of the provider's frame
RawNames == {raw.frame.cols[i].name : i \in 1..Len(raw.frame.cols)}

\* download_stock_data returned a frame
Downloaded == pc \notin {"main", "download"} /\ error = NoError /\ ~data.none

\* the columns of the returned frame that are named "close"
CloseColumns == {i \in 1..Len(data.cols) : data.cols[i].name = "close"}

\* C1: when the five values of the latest row are all defined, the signal is
\* Bullish iff sma20 > sma50, macdLine > macdSignal and rsi14 < 70, Bearish iff
\* sma20 <= sma50, macdLine <= macdSignal and rsi14 > 30, and Neutral in every
\* other case; a run that returns True has printed one of the three.
C1_AggregateVerdict ==
    (AllDefined /\ (verdict # "none" \/ success = "True")) =>
        /\ verdict \in {"Bullish", "Bearish", "Neutral"}
        /\ verdict = "Bullish" <=>
               (sma20.n > sma50.n /\ macdLine.n > macdSignal.n /\ rsi14.n < 70)
        /\ verdict = "Bearish" <=>
               (sma20.n <= sma50.n /\ macdLine.n <= macdSignal.n /\ rsi14.n > 30)

\* C1 witness: a finished run with ties on both crosses, reported Bearish
C1_Witness ==
    /\ pc = "exit"
    /\ AllDefined
    /\ sma20.n = sma50.n
    /\ macdLine.n = macdSignal.n
    /\ verdict = "Bearish"

\* C2: when one of the five values of the latest row is undefined, no Bullish,
\* Bearish or Neutral signal is printed, and a run that returns True has
\* printed the Indeterminate line.
C2_Indeterminate ==
    (pc \in {"analyze", "export", "returned", "exit"} /\ ~AllDefined) =>
        /\ verdict \in {"none", "Indeterminate"}
        /\ success = "True" => verdict = "Indeterminate"

\* C2 witness: a finished run in which only sma50 is undefined
C2_Witness ==
    /\ pc = "exit"
    /\ Defined(rsi14) /\ Defined(sma20) /\ Defined(macdLine) /\ Defined(macdSignal)
    /\ ~Defined(sma50)
    /\ verdict = "Indeterminate"

\* C3: whatever get_fundamental_data returns, a run that reached it prints
\* the signal of its latest row and returns True.
C3_FundamentalsNeverGate ==
    (fund_called /\ pc \in {"returned", "exit"}) =>
        /\ success = "True"
        /\ verdict = Signal(enriched_data.latest)

\* the provider's answer is a fault: the call failed, there is no info, or
\* the table has no row for the ticker
FundamentalFault ==
    \/ fund_resp.o \in {"raise", "none"}
    \/ fund_resp.o = "table" /\ ticker.code \notin DOMAIN fund_resp.table

\* C4: get_fundamental_data never raises into analyze_stock, and on every
\* fault of the provider it returns the empty snapshot: per, pbr and roe are
\* all None.
C4_NeverRaises ==
    fund_called =>
        /\ ~fund_raised
        /\ FundamentalFault =>
              /\ fundamentals = EmptyDict
              /\ Get(fundamentals, "per") = None
              /\ Get(fundamentals, "pbr") = None
              /\ Get(fundamentals, "roe") = None
              /\ fund_warning # "none"
              /\ success # "False"
              /\ verdict # "none"

\* C4 witness: the table has no row for the ticker and the run still succeeds
C4_Witness ==
    /\ pc = "exit"
    /\ fund_resp.o = "table"
    /\ ticker.code \notin DOMAIN fund_resp.table
    /\ fundamentals = EmptyDict
    /\ success = "True"

\* C5: when one of the four indicator calls fails, the other three are still
\* executed.
C5_IndependentIndicators ==
    ind_failed # "none" =>
        \A c \in {"rsi", "macd", "sma20", "sma50"} \ {ind_failed} : c \in ind_ran

\* C6: the PER line of a non-empty snapshot follows the table: undefined gives
\* N/A, PER <= 0 loss-making, 0 < PER < 15 undervalued, 15 <= PER < 30 fair,
\* PER >= 30 overvalued.
C6_PerTable ==
    (DOMAIN fundamentals # {} /\ per_class # "none") =>
        LET per == Get(fundamentals, "per")
        IN  per_class =
                CASE per.k # "num" -> "N/A"
                  [] per.k = "num" /\ per.n <= 0 -> "loss-making"
                  [] per.k = "num" /\ 0 < per.n /\ per.n < 15 * per.d -> "undervalued"
                  [] per.k = "num" /\ 15 * per.d <= per.n /\ per.n < 30 * per.d -> "fair"
                  [] OTHER -> "overvalued"

\* C7: for a regional ticker whose row is in the table, roe is EPS / BPS when
\* EPS and BPS are numbers and BPS is not zero (1000 / 10000 gives 1/10), and
\* None otherwise; per and pbr are the row's PER and PBR.
C7_RegionalRoe ==
    (fund_called /\ ticker.suffix \in {".KS", ".KQ"} /\ fund_resp.o = "table"
     /\ ticker.code \in DOMAIN fund_resp.table) =>
        LET row == fund_resp.table[ticker.code]
            eps == Get(row, "EPS")
            bps == Get(row, "BPS")
            roe == Get(fundamentals, "roe")
        IN  /\ DOMAIN fundamentals = {"per", "pbr", "roe"}
            /\ fundamentals.per = Get(row, "PER")
            /\ fundamentals.pbr = Get(row, "PBR")
            /\ IF eps.k = "num" /\ bps.k = "num" /\ bps.n # 0
               THEN /\ roe.k = "num"
                    /\ roe.n * bps.n * eps.d = eps.n * bps.d * roe.d
                    /\ (eps.n = 1000 /\ bps.n = 10000) => (roe.n = 1 /\ roe.d = 10)
               ELSE roe = None

\* C7 witness: EPS 1000 and BPS 10000 reported as the ratio 1/10
C7_Witness ==
    /\ pc = "exit"
    /\ fund_resp.o = "table"
    /\ ticker.code \in DOMAIN fund_resp.table
    /\ Get(fund_resp.table[ticker.code], "EPS") = Num(1000)
    /\ Get(fund_resp.table[ticker.code], "BPS") = Num(10000)
    /\ Get(fundamentals, "roe") = Rat(1, 10)

\* the price series is missing, empty or has no close field
FatalSeries ==
    \/ raw.o = "none"
    \/ /\ raw.o = "frame"
       /\ \/ raw.frame.rows = 0
          \/ RawNames \cap {"Close", "Adj Close"} = {}

\* C8: on a missing or empty price series, or one without a close field,
\* analyze_stock returns False without computing an indicator, retrieving
\* fundamentals or printing a signal, and the run ends with exit code 1; a
\* run in which analyze_stock returns True ends with exit code 0.
C8_FatalSeries ==
    /\ [](FatalSeries =>
            /\ success = "False"
            /\ ind_ran = {}
            /\ enriched_data.latest = EmptyDict
            /\ ~fund_called
            /\ verdict = "none"
            /\ pc = "exit" => exit_code = 1)
    /\ []((pc = "exit" /\ success = "True") => exit_code = 0)
    /\ (FatalSeries ~> (pc = "exit" /\ exit_code = 1))
    /\ (success = "True" ~> (pc = "exit" /\ exit_code = 0))

\* C8 witness: a run on a frame without rows has ended with exit code 1
C8_Witness ==
    /\ pc = "exit"
    /\ raw.o = "frame"
    /\ raw.frame.rows = 0
    /\ exit_code = 1

\* C9: a frame without rows fails with the empty-series error whatever its
\* fields are, and the missing-price-field error is raised only for a frame
\* that has rows.
C9_EmptyFirst ==
    /\ (raw.o = "frame" /\ raw.frame.rows = 0) => error.kind = "EmptySeries"
    /\ error.kind = "MissingPriceField" => (raw.o = "frame" /\ raw.frame.rows > 0)

\* C9 witness: a frame with no rows and no close field failed as empty
C9_Witness ==
    /\ raw.o = "frame"
    /\ raw.frame.rows = 0
    /\ RawNames = {"Volume"}
    /\ error.kind = "EmptySeries"

\* C10: for a non-empty frame (DataFrame.empty is false: it has a row and a
\* column), an adjusted close becomes the only "close" column and the raw
\* close is dropped; else a raw close is kept as "close"; else the call fails
\* with the missing-price-field error that lists the fields. A returned frame
\* has a "close" and no "adj close" column.
C10_CanonicalClose ==
    /\ (raw.o = "frame" /\ raw.frame.rows > 0 /\ RawNames # {}) =>
          IF "Adj Close" \in RawNames
          THEN /\ Downloaded
               /\ Cardinality(CloseColumns) = 1
               /\ \A i \in CloseColumns : data.cols[i].src = "Adj Close"
               /\ \A i \in 1..Len(data.cols) : data.cols[i].src # "Close"
          ELSE IF "Close" \in RawNames
          THEN /\ Downloaded
               /\ Cardinality(CloseColumns) = 1
               /\ \A i \in CloseColumns : data.cols[i].src = "Close"
          ELSE /\ error.kind = "MissingPriceField"
               /\ Len(error.available) = Len(raw.frame.cols)
               /\ \A i \in 1..Len(raw.frame.cols) :
                      error.available[i] = Lower(raw.frame.cols[i].name)
    /\ Downloaded =>
          /\ CloseColumns # {}
          /\ \A i \in 1..Len(data.cols) : data.cols[i].name # "adj close"

\* C10 witness: a frame with both closes was returned with the adjusted one
C10_Witness ==
    /\ Downloaded
    /\ {"Adj Close", "Close"} \subseteq RawNames
    /\ Cardinality(CloseColumns) = 1
    /\ \A i \in CloseColumns : data.cols[i].src = "Adj Close"

=============================================================================
